---- MODULE Spec2Model ----
(***************************************************************************)
(* Model of the scene-based game runtime of Benevolent-Bonobos.            *)
(*                                                                         *)
(* game.py: Game.__init__ and Game.run, one action per statement group of  *)
(* the main loop (while test, next_frame call, presentation, dispatch on   *)
(* the returned command, reset call, input poll).  The scenes are the      *)
(* abstract Scene of game.py: a next_frame call returns any value or       *)
(* raises, a reset call returns or raises.  The keyboard is the            *)
(* environment: keys arrive in the terminal's input buffer at any time.    *)
(***************************************************************************)
EXTENDS Integers, Sequences, FiniteSets

(* ---------------------------- bounds ---------------------------------- *)
\* longest scene list handed to Game(...)
MaxScenes == 3
\* keys the terminal buffers between two polls
MaxKbd == 1
\* integer commands a scene returns: 1..MaxSignal (4.. are domain signals)
MaxSignal == 4

\* largest number of rows and of columns of a camera's map; requested
\* coordinates range over -1..MaxDim
MaxDim == 3

\* cells of the corridor a level's maze is: start at one end, goal at the other
MazeLen == 3

\* longest list of concrete scenes a game is played with
MaxPlayScenes == 2
\* remove_maze threads of one level that are asleep at the same time
MaxTimers == 1

(* ------------------------ program constants --------------------------- *)
NEXT_SCENE == 1
RESET == 2
QUIT == 3

\* the value next(self.scenes, None) yields once the iterator is exhausted;
\* scene objects are identified by their position 1..n in the list
None == 0

(* ----------------------------- keys ----------------------------------- *)
\* Keystroke(): the empty key event, also what inkey returns on timeout
Keystroke == ""
\* the keys a player presses in the model
Keys == {"q", "Q", "x", " "}
\* str.lower on the keys of the model
lower(k) == IF k = "Q" THEN "q" ELSE IF k = "H" THEN "h" ELSE k
\* val.lower without the call: a bound method object, equal to no string
lower_method == "<built-in method lower of Keystroke object>"

(* ---------------------- values next_frame returns --------------------- *)
IntRet(n) == [t |-> "int", v |-> n]
StrRet == [t |-> "str", v |-> ""]
NoneRet == [t |-> "none"]
\* the local `command` before its first assignment
Unbound == [t |-> "unbound"]
Returns == {IntRet(n) : n \in 1..MaxSignal} \cup {StrRet, NoneRet}
\* command == c for an int constant c
PyEq(command_, c) == command_.t = "int" /\ command_.v = c

\* exceptions a scene operation raises
Errors == {"AttributeError", "KeyError"}

VARIABLES
  scenes_arg,     \* the list handed to Game.__init__
  scenes,         \* self.scenes: the iterator, as the items it has left
  current_scene,  \* self.current_scene
  val,            \* local val of run
  command,        \* local command of run
  pc,             \* position of the program
  err,            \* the exception raised by the last scene operation
  logged,         \* logging.info + print("Game ended.") was executed
  kbd,            \* terminal input buffer
  called,         \* last next_frame call: receiver, argument and result
  since,          \* what run did since that call: presentations, resets, polls
  kind,           \* the class of each scene object of the list (levels.py)
  st,             \* the fields of each scene object
  screen,         \* what the shared Render sink holds
  timers,         \* per scene: remove_maze threads started and still asleep
  tw,             \* two scene objects fed the same events, side by side
  cam             \* a Camera, the last request made to it and its answer

vars == <<scenes_arg, scenes, current_scene, val, command, pc, err, logged,
          kbd, called, since, kind, st, screen, timers, tw, cam>>

\* the state outside Game: scene objects, render sink, threads, camera
ext == <<kind, st, screen, timers, tw, cam>>

\* what a call that raised has returned
Raised == [t |-> "raised"]
NoCall == [scene |-> None, val |-> Keystroke, ret |-> Unbound]
Nothing == [present |-> 0, reset |-> 0, poll |-> 0, timeout |-> FALSE]

\* positions inside the while loop of run
RunningPcs == {"while", "call", "present", "dispatch", "reset", "poll"}
RUNNING == pc \in RunningPcs
TERMINATED == pc = "terminated"

\* scenes [1, 2, ..., n]
SceneList(n) == [i \in 1..n |-> i]

Init ==
  /\ scenes_arg \in {SceneList(n) : n \in 0..MaxScenes}
  /\ scenes = <<>>
  /\ current_scene = None
  /\ val = Keystroke
  /\ command = Unbound
  /\ pc = "new"
  /\ err = "none"
  /\ logged = FALSE
  /\ kbd = <<>>
  /\ called = NoCall
  /\ since = Nothing
  /\ kind = <<>>
  /\ st = <<>>
  /\ screen = {}
  /\ timers = <<>>
  /\ tw = [phase |-> "off"]
  /\ cam = [phase |-> "off"]

(* ------------------------- Game.__init__ ------------------------------ *)
\* Game.__init__ with next(self.scenes, None): no error on an empty list
Construct_default ==
  /\ pc = "new"
  /\ pc' = "constructed"
  /\ current_scene' = IF scenes_arg = <<>> THEN None ELSE Head(scenes_arg)
  /\ scenes' = IF scenes_arg = <<>> THEN <<>> ELSE Tail(scenes_arg)
  /\ UNCHANGED <<scenes_arg, val, command, err, logged, kbd, called, since>>
  /\ UNCHANGED ext

\* self.scenes = iter(scenes); self.current_scene = next(self.scenes):
\* next without a default raises StopIteration on an empty iterator
Construct ==
  /\ pc = "new"
  /\ IF scenes_arg = <<>>
       THEN /\ pc' = "ctor_failed"
            /\ err' = "StopIteration"
            /\ UNCHANGED <<scenes, current_scene>>
       ELSE /\ pc' = "constructed"
            /\ current_scene' = Head(scenes_arg)
            /\ scenes' = Tail(scenes_arg)
            /\ UNCHANGED err
  /\ UNCHANGED <<scenes_arg, val, command, logged, kbd, called, since>>
  /\ UNCHANGED ext

(* ---------------------------- Game.run -------------------------------- *)
\* with term.cbreak(): val = Keystroke()
RunEnter ==
  /\ pc = "constructed"
  /\ val' = Keystroke
  /\ pc' = "while"
  /\ UNCHANGED <<scenes_arg, scenes, current_scene, command, err, logged,
                 kbd, called, since>>
  /\ UNCHANGED ext

\* the loop condition with both calls made and `and`: 'q' or 'x' ends the run
LoopCond_keys(v) == (lower(v) # "q") /\ (lower(v) # "x")

\* (val.lower() != "q") or (val.lower != "x")
LoopCond(v) == (lower(v) # "q") \/ (lower_method # "x")

WhileTest ==
  /\ pc = "while"
  /\ pc' = IF LoopCond(val) THEN "call" ELSE "terminated"
  /\ UNCHANGED <<scenes_arg, scenes, current_scene, val, command, err, logged,
                 kbd, called, since>>
  /\ UNCHANGED ext

\* the clause `except AttributeError`
Caught(e) == e = "AttributeError"

\* try: command = self.current_scene.next_frame(val)
\* except AttributeError: logging.info(...); print("Game ended."); break
Raise(e) ==
  /\ err' = e
  /\ IF Caught(e)
       THEN pc' = "terminated" /\ logged' = TRUE
       ELSE pc' = "crashed" /\ UNCHANGED logged

CallNextFrame ==
  /\ pc = "call"
  /\ IF current_scene = None
       THEN \* None has no attribute next_frame
            /\ Raise("AttributeError")
            /\ UNCHANGED <<command, called, since>>
       ELSE /\ since' = Nothing
            /\ \/ \E r \in Returns :
                    /\ command' = r
                    /\ called' = [scene |-> current_scene, val |-> val,
                                  ret |-> r]
                    /\ pc' = "present"
                    /\ UNCHANGED <<err, logged>>
               \/ \E e \in Errors :
                    /\ Raise(e)
                    /\ called' = [scene |-> current_scene, val |-> val,
                                  ret |-> Raised]
                    /\ UNCHANGED command
  /\ UNCHANGED <<scenes_arg, scenes, current_scene, val, kbd>>
  /\ UNCHANGED ext

\* print(render.screen())
Present ==
  /\ pc = "present"
  /\ since' = [since EXCEPT !.present = @ + 1]
  /\ pc' = "dispatch"
  /\ UNCHANGED <<scenes_arg, scenes, current_scene, val, command, err, logged,
                 kbd, called>>
  /\ UNCHANGED ext

\* an iterator that starts over from the first scene once exhausted
NextOrNone_rewind(it) ==
  IF it = <<>> THEN [item |-> Head(scenes_arg), rest |-> Tail(scenes_arg)]
               ELSE [item |-> Head(it), rest |-> Tail(it)]

\* next(self.scenes, None): the item and the iterator afterwards
NextOrNone(it) ==
  IF it = <<>> THEN [item |-> None, rest |-> it]
               ELSE [item |-> Head(it), rest |-> Tail(it)]

\* the NEXT_SCENE branch without its `continue`: falls through to the poll
DispatchNextScene_fallthrough ==
  /\ pc = "dispatch"
  /\ PyEq(command, NEXT_SCENE)
  /\ current_scene' = NextOrNone(scenes).item
  /\ scenes' = NextOrNone(scenes).rest
  /\ pc' = "poll"
  /\ UNCHANGED <<scenes_arg, val, command, err, logged, kbd, called, since>>
  /\ UNCHANGED ext

\* if command == NEXT_SCENE: self.current_scene = next(self.scenes, None); continue
DispatchNextScene ==
  /\ pc = "dispatch"
  /\ PyEq(command, NEXT_SCENE)
  /\ current_scene' = NextOrNone(scenes).item
  /\ scenes' = NextOrNone(scenes).rest
  /\ pc' = "while"
  /\ UNCHANGED <<scenes_arg, val, command, err, logged, kbd, called, since>>
  /\ UNCHANGED ext

\* elif command == RESET: (the call itself is CallReset)
DispatchReset ==
  /\ pc = "dispatch"
  /\ ~PyEq(command, NEXT_SCENE)
  /\ PyEq(command, RESET)
  /\ pc' = "reset"
  /\ UNCHANGED <<scenes_arg, scenes, current_scene, val, command, err, logged,
                 kbd, called, since>>
  /\ UNCHANGED ext

\* the RESET branch without `val = Keystroke()`
CallReset_keeps_val ==
  /\ pc = "reset"
  /\ since' = [since EXCEPT !.reset = @ + 1]
  /\ \/ /\ pc' = "while"
        /\ UNCHANGED err
     \/ \E e \in Errors :
          /\ err' = e
          /\ pc' = "crashed"
  /\ UNCHANGED <<scenes_arg, scenes, current_scene, val, command, logged, kbd,
                 called>>
  /\ UNCHANGED ext

\* self.current_scene.reset(); val = Keystroke(); continue
\* the call is outside the try block: whatever reset raises leaves run
CallReset ==
  /\ pc = "reset"
  /\ since' = [since EXCEPT !.reset = @ + 1]
  /\ \/ /\ val' = Keystroke
        /\ pc' = "while"
        /\ UNCHANGED err
     \/ \E e \in Errors :
          /\ err' = e
          /\ pc' = "crashed"
          /\ UNCHANGED val
  /\ UNCHANGED <<scenes_arg, scenes, current_scene, command, logged, kbd,
                 called>>
  /\ UNCHANGED ext

\* the QUIT branch with `continue` instead of `break`
DispatchQuit_continue ==
  /\ pc = "dispatch"
  /\ ~PyEq(command, NEXT_SCENE)
  /\ ~PyEq(command, RESET)
  /\ PyEq(command, QUIT)
  /\ pc' = "while"
  /\ UNCHANGED <<scenes_arg, scenes, current_scene, val, command, err, logged,
                 kbd, called, since>>
  /\ UNCHANGED ext

\* elif command == QUIT: break
DispatchQuit ==
  /\ pc = "dispatch"
  /\ ~PyEq(command, NEXT_SCENE)
  /\ ~PyEq(command, RESET)
  /\ PyEq(command, QUIT)
  /\ pc' = "terminated"
  /\ UNCHANGED <<scenes_arg, scenes, current_scene, val, command, err, logged,
                 kbd, called, since>>
  /\ UNCHANGED ext

\* a loop that ends the run on any command it does not know
DispatchOther_break ==
  /\ pc = "dispatch"
  /\ ~PyEq(command, NEXT_SCENE)
  /\ ~PyEq(command, RESET)
  /\ ~PyEq(command, QUIT)
  /\ pc' = "terminated"
  /\ UNCHANGED <<scenes_arg, scenes, current_scene, val, command, err, logged,
                 kbd, called, since>>
  /\ UNCHANGED ext

\* no branch taken: fall through to the input poll
DispatchOther ==
  /\ pc = "dispatch"
  /\ ~PyEq(command, NEXT_SCENE)
  /\ ~PyEq(command, RESET)
  /\ ~PyEq(command, QUIT)
  /\ pc' = "poll"
  /\ UNCHANGED <<scenes_arg, scenes, current_scene, val, command, err, logged,
                 kbd, called, since>>
  /\ UNCHANGED ext

\* the timeout of term.inkey, in milliseconds (a negative value stands for
\* timeout=None, which blocks until a key arrives)
inkey_timeout == 50

\* term.inkey() without a timeout: returns only once a key is buffered
InkeyReturns_blocking(buf) == buf # <<>>

\* term.inkey(timeout=0.05) is able to return: a key is buffered, or the
\* timeout expires
InkeyReturns(buf) == buf # <<>> \/ inkey_timeout >= 0

\* val = term.inkey(timeout=0.05): the oldest buffered key, or after the
\* timeout the empty Keystroke
Poll ==
  /\ pc = "poll"
  /\ InkeyReturns(kbd)
  /\ IF kbd # <<>>
       THEN /\ val' = Head(kbd)
            /\ kbd' = Tail(kbd)
            /\ since' = [since EXCEPT !.poll = @ + 1]
       ELSE /\ val' = Keystroke
            /\ kbd' = kbd
            /\ since' = [since EXCEPT !.poll = @ + 1, !.timeout = TRUE]
  /\ pc' = "while"
  /\ UNCHANGED <<scenes_arg, scenes, current_scene, command, err, logged,
                 called>>
  /\ UNCHANGED ext

(* --------------------------- environment ------------------------------ *)
\* the player presses a key while the game runs
KeyPress ==
  /\ RUNNING
  /\ Len(kbd) < MaxKbd
  /\ \E k \in Keys : kbd' = Append(kbd, k)
  /\ UNCHANGED <<scenes_arg, scenes, current_scene, val, command, pc, err,
                 logged, called, since>>
  /\ UNCHANGED ext

\* the steps of the program itself
Program ==
  \/ Construct
  \/ RunEnter
  \/ WhileTest
  \/ CallNextFrame
  \/ Present
  \/ DispatchNextScene
  \/ DispatchReset
  \/ CallReset
  \/ DispatchQuit
  \/ DispatchOther
  \/ Poll

Next ==
  \/ Construct
  \/ RunEnter
  \/ WhileTest
  \/ CallNextFrame
  \/ Present
  \/ DispatchNextScene
  \/ DispatchReset
  \/ CallReset
  \/ DispatchQuit
  \/ DispatchOther
  \/ Poll
  \/ KeyPress

Spec == Init /\ [][Next]_vars

\* the program is one running thread: it always takes its next step; the
\* player is under no obligation to press a key
FairSpec == Spec /\ WF_vars(Program)

\* the Game of the specifications that exercise other objects: never built
GameOff ==
  /\ scenes_arg = <<>>
  /\ scenes = <<>>
  /\ current_scene = None
  /\ val = Keystroke
  /\ command = Unbound
  /\ pc = "off"
  /\ err = "none"
  /\ logged = FALSE
  /\ kbd = <<>>
  /\ called = NoCall
  /\ since = Nothing

gameVars == <<scenes_arg, scenes, current_scene, val, command, pc, err, logged,
              kbd, called, since>>

(* ------------------------- scenes of levels.py ------------------------ *)
\* the keys the concrete scenes are driven with; KEY_* are blessed's names of
\* keys that arrive as escape sequences
SceneKeys == {"KEY_RIGHT", "KEY_LEFT", "KEY_ENTER", " ", "h", "H", "r", "q", "p"}
\* val.is_sequence
is_sequence(k) == k \in {"KEY_UP", "KEY_DOWN", "KEY_LEFT", "KEY_RIGHT", "KEY_ENTER"}
\* val.code: the curses key code of a sequence key, None otherwise
code(k) ==
  CASE k = "KEY_DOWN" -> 258
    [] k = "KEY_UP" -> 259
    [] k = "KEY_LEFT" -> 260
    [] k = "KEY_RIGHT" -> 261
    [] k = "KEY_ENTER" -> 343
    [] OTHER -> None
\* val.name
name(k) == IF is_sequence(k) THEN k ELSE "None"
\* str(val): the characters received; an escape sequence for a sequence key
str(k) == IF is_sequence(k) THEN "ESC " \o k ELSE k
\* val.is_sequence and (257 < val.code < 262)
IsArrow(k) == is_sequence(k) /\ 257 < code(k) /\ code(k) < 262

\* the domain signals levels.py imports from game
PAUSE == [t |-> "signal", v |-> "PAUSE"]
PLAY == [t |-> "signal", v |-> "PLAY"]
LOSE == [t |-> "signal", v |-> "LOSE"]

Kinds == {"title", "level", "end", "pause"}

\* maze.mat2screen(maze.start), maze.mat2screen(maze.end): the two ends of
\* the corridor
start_loc == 0
end_loc == MazeLen - 1

\* Player.update(val, maze): one cell along the corridor, walls all around
PlayerUpdate(coords, k) ==
  IF k = "KEY_RIGHT" /\ coords < MazeLen - 1 THEN coords + 1
  ELSE IF k = "KEY_LEFT" /\ coords > 0 THEN coords - 1
  ELSE coords

\* the object each constructor builds
Fresh(K) ==
  CASE K = "title" -> [first_frame |-> TRUE]
    [] K = "end" -> [first_frame |-> TRUE]
    [] K = "pause" -> [first_frame |-> TRUE, current_frame |-> "menu"]
    [] K = "level" -> [first_frame |-> TRUE, maze_is_visible |-> FALSE,
                       reward_on_goal |-> 0, coords |-> start_loc]

\* things drawn into the render sink
Clear == [op |-> "clear"]
Add(what) == [op |-> "add", what |-> what]
Del(what) == [op |-> "del", what |-> what]

\* what a next_frame call comes to: the object afterwards, the value
\* returned, what was rendered, whether a remove_maze thread was started
Outcome(s, r, draws, thread) ==
  [st |-> s, ret |-> r, draw |-> draws, thread |-> thread]

\* TitleScene.next_frame
TitleNextFrame(s, k) ==
  IF s.first_frame
    THEN Outcome([s EXCEPT !.first_frame = FALSE], NoneRet,
                 <<Clear, Add("text")>>, FALSE)
  ELSE IF str(k) = " " \/ name(k) = "KEY_ENTER"
    THEN Outcome(s, IntRet(NEXT_SCENE), <<>>, FALSE)
  ELSE Outcome(s, NoneRet, <<>>, FALSE)

\* TitleScene.reset: pass
TitleReset(s) == s

\* EndScene.next_frame
EndNextFrame(s, k) ==
  IF s.first_frame
    THEN Outcome([s EXCEPT !.first_frame = FALSE], NoneRet,
                 <<Add("text")>>, FALSE)
  ELSE IF str(k) = " " \/ name(k) = "KEY_ENTER"
    THEN Outcome(s, IntRet(NEXT_SCENE), <<>>, FALSE)
  ELSE Outcome(s, NoneRet, <<>>, FALSE)

\* EndScene.reset: pass
EndReset(s) == s

\* render(self.current_frame) of a Pause: the three lines, or blanks over them
PauseDraw(frame) == IF frame = "menu" THEN <<Add("text")>> ELSE <<Del("text")>>

\* Pause.next_frame
PauseNextFrame(s, k) ==
  IF s.first_frame
    THEN Outcome([s EXCEPT !.first_frame = FALSE], NoneRet,
                 PauseDraw(s.current_frame), FALSE)
  ELSE IF lower(k) = "q"
    THEN Outcome(s, IntRet(QUIT), <<>>, FALSE)
  ELSE IF lower(k) = "p"
    THEN Outcome([s EXCEPT !.current_frame = "blank"], PLAY,
                 PauseDraw("blank"), FALSE)
  ELSE Outcome(s, NoneRet, <<>>, FALSE)

\* Pause.reset
PauseReset(s) == [s EXCEPT !.current_frame = "menu", !.first_frame = TRUE]

\* the end of Level.next_frame: score.update(...), then LOSE if the score is
\* used up; `lose` is that verdict of the Score object
EveryFrame(s, lose, draws, thread) ==
  Outcome(s, IF lose THEN LOSE ELSE StrRet, draws, thread)

\* the goal test of Level.next_frame taken before player.update
LevelArrow_stale(s, k, lose) ==
  LET moved == [s EXCEPT !.coords = PlayerUpdate(s.coords, k)]
  IN IF s.coords = end_loc
       THEN Outcome(moved, IntRet(NEXT_SCENE), <<>>, FALSE)
       ELSE EveryFrame(moved, lose, <<Add("player")>>, FALSE)

\* the arrow-key branch of Level.next_frame: player.update, goal test, render
LevelArrow(s, k, lose) ==
  LET moved == [s EXCEPT !.coords = PlayerUpdate(s.coords, k)]
  IN IF moved.coords = end_loc
       THEN Outcome(moved, IntRet(NEXT_SCENE), <<>>, FALSE)
       ELSE EveryFrame(moved, lose, <<Add("player")>>, FALSE)

\* Level.remove_maze after its sleep: erase the maze, draw the player
RemoveMazeDraw == <<Del("maze"), Add("player")>>

\* Level.next_frame
LevelNextFrame(s, k, lose) ==
  IF s.first_frame
    THEN \* build_level, Thread(target=self.remove_maze).start(), render(frame),
         \* player.start()
         EveryFrame([s EXCEPT !.first_frame = FALSE, !.reward_on_goal = 200,
                              !.coords = start_loc],
                    lose, <<Clear, Add("maze"), Add("player")>>, TRUE)
  ELSE IF IsArrow(k) THEN LevelArrow(s, k, lose)
  ELSE IF lower(k) = "e" THEN EveryFrame(s, lose, <<>>, FALSE)
  ELSE IF lower(k) = "q" THEN Outcome(s, PAUSE, <<>>, FALSE)
  ELSE IF lower(k) = "r" THEN Outcome(s, IntRet(RESET), <<>>, FALSE)
  ELSE IF lower(k) = "h"
    THEN IF ~s.maze_is_visible
           THEN EveryFrame([s EXCEPT !.maze_is_visible = TRUE], lose,
                           <<Add("maze"), Add("player")>>, FALSE)
           ELSE Outcome([s EXCEPT !.maze_is_visible = FALSE], StrRet,
                        RemoveMazeDraw, FALSE)
  ELSE EveryFrame(s, lose, <<>>, FALSE)

\* Level.reset without self.first_frame = True
LevelReset_no_first_frame(s) == [s EXCEPT !.coords = start_loc]

\* Level.reset: player.start(); self.first_frame = True
LevelReset(s) == [s EXCEPT !.coords = start_loc, !.first_frame = TRUE]

\* scene.next_frame(val) by the class of the scene
NextFrame(K, s, k, lose) ==
  CASE K = "title" -> TitleNextFrame(s, k)
    [] K = "end" -> EndNextFrame(s, k)
    [] K = "pause" -> PauseNextFrame(s, k)
    [] K = "level" -> LevelNextFrame(s, k, lose)

\* scene.reset() by the class of the scene
Reset(K, s) ==
  CASE K = "title" -> TitleReset(s)
    [] K = "end" -> EndReset(s)
    [] K = "pause" -> PauseReset(s)
    [] K = "level" -> LevelReset(s)

(* ---------------- a scene and a new one, side by side ----------------- *)
\* two objects of one class, both just constructed
TwinInit ==
  /\ GameOff
  /\ kind = <<>>
  /\ st = <<>>
  /\ screen = {}
  /\ timers = <<>>
  /\ cam = [phase |-> "off"]
  /\ tw \in {[phase |-> "drive", kind |-> K, a |-> Fresh(K), b |-> Fresh(K),
              ra |-> Unbound, rb |-> Unbound, before |-> Fresh(K),
              trigger |-> Unbound] : K \in Kinds}

\* the first object lives: next_frame with any event
TwinDrive ==
  /\ tw.phase = "drive"
  /\ \E k \in SceneKeys \cup {Keystroke}, lose \in BOOLEAN :
       LET o == NextFrame(tw.kind, tw.a, k, lose)
       IN tw' = [tw EXCEPT !.a = o.st, !.ra = o.ret]
  /\ UNCHANGED <<gameVars, kind, st, screen, timers, cam>>

\* reset() on the first object, once or again
TwinReset ==
  /\ tw.phase \in {"drive", "reset"}
  /\ tw' = [tw EXCEPT !.phase = "reset", !.a = Reset(tw.kind, tw.a),
                      !.before = IF tw.phase = "drive" THEN tw.a ELSE @,
                      !.trigger = IF tw.phase = "drive" THEN tw.ra ELSE @]
  /\ UNCHANGED <<gameVars, kind, st, screen, timers, cam>>

\* from the reset on, both objects get the same events
TwinBoth ==
  /\ tw.phase \in {"reset", "both"}
  /\ \E k \in SceneKeys \cup {Keystroke}, lose \in BOOLEAN :
       LET oa == NextFrame(tw.kind, tw.a, k, lose)
           ob == NextFrame(tw.kind, tw.b, k, lose)
       IN tw' = [tw EXCEPT !.phase = "both", !.a = oa.st, !.ra = oa.ret,
                           !.b = ob.st, !.rb = ob.ret]
  /\ UNCHANGED <<gameVars, kind, st, screen, timers, cam>>

TwinNext ==
  \/ TwinDrive
  \/ TwinReset
  \/ TwinBoth

TwinSpec == TwinInit /\ [][TwinNext]_vars

(* --------------- a game of concrete scenes, with threads --------------- *)
\* render(...) of scene i on the shared sink: the sink holds what is drawn,
\* each thing tagged with the scene that drew it
RECURSIVE Render(_, _, _)
Render(scr, i, draws) ==
  IF draws = <<>> THEN scr
  ELSE LET d == Head(draws)
           now == CASE d.op = "clear" -> {}
                    [] d.op = "add" -> scr \cup {<<d.what, i>>}
                    [] d.op = "del" -> scr \ {<<d.what, i>>}
       IN Render(now, i, Tail(draws))

\* Game(scenes) for a list of TitleScene, Level, EndScene, Pause objects,
\* each just constructed
PlayInit ==
  /\ \E n \in 1..MaxPlayScenes :
       /\ scenes_arg = SceneList(n)
       /\ kind \in [1..n -> Kinds]
       /\ timers = [i \in 1..n |-> 0]
  /\ st = [i \in 1..Len(kind) |-> Fresh(kind[i])]
  /\ screen = {}
  /\ scenes = <<>>
  /\ current_scene = None
  /\ val = Keystroke
  /\ command = Unbound
  /\ pc = "new"
  /\ err = "none"
  /\ logged = FALSE
  /\ kbd = <<>>
  /\ called = NoCall
  /\ since = Nothing
  /\ tw = [phase |-> "off"]
  /\ cam = [phase |-> "off"]

\* command = self.current_scene.next_frame(val) on the concrete scene; a
\* first frame of a Level starts a remove_maze thread
SceneNextFrame ==
  /\ pc = "call"
  /\ IF current_scene = None
       THEN /\ Raise("AttributeError")
            /\ UNCHANGED <<command, called, since, st, screen, timers>>
       ELSE \E lose \in BOOLEAN :
              LET o == NextFrame(kind[current_scene], st[current_scene], val,
                                 lose)
              IN /\ o.thread => timers[current_scene] < MaxTimers
                 /\ st' = [st EXCEPT ![current_scene] = o.st]
                 /\ screen' = Render(screen, current_scene, o.draw)
                 /\ timers' = IF o.thread
                                THEN [timers EXCEPT ![current_scene] = @ + 1]
                                ELSE timers
                 /\ command' = o.ret
                 /\ called' = [scene |-> current_scene, val |-> val,
                               ret |-> o.ret]
                 /\ since' = Nothing
                 /\ pc' = "present"
                 /\ UNCHANGED <<err, logged>>
  /\ UNCHANGED <<scenes_arg, scenes, current_scene, val, kbd, kind, tw, cam>>

\* self.current_scene.reset(); val = Keystroke(); continue
SceneReset ==
  /\ pc = "reset"
  /\ st' = [st EXCEPT ![current_scene] = Reset(kind[current_scene], @)]
  /\ since' = [since EXCEPT !.reset = @ + 1]
  /\ val' = Keystroke
  /\ pc' = "while"
  /\ UNCHANGED <<scenes_arg, scenes, current_scene, command, err, logged, kbd,
                 called, kind, screen, timers, tw, cam>>

\* val = term.inkey(timeout=0.05): the key the player pressed, or the empty
\* Keystroke
PollKey ==
  /\ pc = "poll"
  /\ \E k \in SceneKeys \cup {Keystroke} :
       /\ val' = k
       /\ since' = [since EXCEPT !.poll = @ + 1, !.timeout = (k = Keystroke)]
  /\ pc' = "while"
  /\ UNCHANGED <<scenes_arg, scenes, current_scene, command, err, logged, kbd,
                 called, kind, st, screen, timers, tw, cam>>

\* a remove_maze thread of scene i wakes up while the game runs:
\* render(self.maze.erase_map); self.player.render()
TimerFire ==
  /\ RUNNING
  /\ \E i \in 1..Len(timers) :
       /\ timers[i] > 0
       /\ timers' = [timers EXCEPT ![i] = @ - 1]
       /\ screen' = Render(screen, i, RemoveMazeDraw)
  /\ UNCHANGED <<gameVars, kind, st, tw, cam>>

PlayNext ==
  \/ Construct
  \/ RunEnter
  \/ WhileTest
  \/ SceneNextFrame
  \/ Present
  \/ DispatchNextScene
  \/ DispatchReset
  \/ SceneReset
  \/ DispatchQuit
  \/ DispatchOther
  \/ PollKey
  \/ TimerFire

PlaySpec == PlayInit /\ [][PlayNext]_vars

(* ------------------------------ Camera -------------------------------- *)
\* coordinates asked of a camera: inside the map, negative, beyond the map
Coords == (0 - 1)..MaxDim
\* where a camera stands when it is asked
Anchors == 0..1

\* a clip that takes its arguments in the order of the calls: (low, v, high)
clip_low_v_high(x, p, u) == IF p < x THEN x ELSE IF p > u THEN u ELSE p

\* def clip(x, p, u): return p if x < p else u if x > u else x
clip(x, p, u) == IF x < p THEN p ELSE IF x > u THEN u ELSE x

\* Camera.set_position(x, y): the four slice bounds; shape = (rows, cols)
set_position(c, x, y) ==
  [y_min |-> clip(0, y, c.rows - 1),
   y_max |-> clip(0, y + c.camera_size, c.rows - 1),
   x_min |-> clip(0, y, c.cols - 1),
   x_max |-> clip(0, y + c.camera_size, c.cols - 1)]

\* transition_length = int(1 / 0.1)
transition_length == 10
interval == 10
\* waypoints are kept in fixed point: a coordinate v is the integer v * Scale
Scale == 10000

\* pt.easeInOutSine(n) = -0.5 * (cos(pi * n) - 1) at n = i / 10, times Scale
\* and rounded to the nearest integer
easeInOutSine(i) ==
  <<0, 245, 955, 2061, 3455, 5000, 6545, 7939, 9045, 9755, 10000>>[i + 1]

\* the argument of the easing at step i, in units of 1 / interval
ease_arg_from_one(i) == i + 1

\* (1 / interval) * i, in units of 1 / interval
ease_arg(i) == i

\* the loop of set_position_styled after n passes: the running (cx, cy) and
\* the list built so far;  cx = cx + easeInOutSine((1 / interval) * i) * diff_x
RECURSIVE styled_loop(_, _, _, _, _)
styled_loop(n, cx0, cy0, diff_x, diff_y) ==
  IF n = 0
    THEN [cx |-> cx0 * Scale, cy |-> cy0 * Scale, animation_coords |-> <<>>]
    ELSE LET before == styled_loop(n - 1, cx0, cy0, diff_x, diff_y)
             i == n - 1
             cx == before.cx + easeInOutSine(ease_arg(i)) * diff_x
             cy == before.cy + easeInOutSine(ease_arg(i)) * diff_y
         IN [cx |-> cx, cy |-> cy,
             animation_coords |-> Append(before.animation_coords, <<cx, cy>>)]

\* Camera.set_position_styled(x, y): the list of (cx, cy), in fixed point
set_position_styled(c, x, y) ==
  styled_loop(transition_length, c.cam_x, c.cam_y, x - c.cam_x, y - c.cam_y)
    .animation_coords

\* Camera(game_map, cam_x, cam_y, camera_size) over a map of rows x cols
CamInit ==
  /\ GameOff
  /\ kind = <<>>
  /\ st = <<>>
  /\ screen = {}
  /\ timers = <<>>
  /\ tw = [phase |-> "off"]
  /\ cam \in {[phase |-> "idle", rows |-> r, cols |-> k, camera_size |-> z,
               cam_x |-> ax, cam_y |-> ay, x |-> 0, y |-> 0, out |-> <<>>] :
                r \in 1..MaxDim, k \in 1..MaxDim, z \in 0..MaxDim,
                ax \in Anchors, ay \in Anchors}

\* a call of set_position: the camera itself is not changed
CamSetPosition ==
  /\ cam.phase \in {"idle", "set", "styled"}
  /\ \E x \in Coords, y \in Coords :
       cam' = [cam EXCEPT !.phase = "set", !.x = x, !.y = y,
                          !.out = set_position(cam, x, y)]
  /\ UNCHANGED <<gameVars, kind, st, screen, timers, tw>>

\* a call of set_position_styled: the camera itself is not changed
CamSetPositionStyled ==
  /\ cam.phase \in {"idle", "set", "styled"}
  /\ \E x \in Coords, y \in Coords :
       cam' = [cam EXCEPT !.phase = "styled", !.x = x, !.y = y,
                          !.out = set_position_styled(cam, x, y)]
  /\ UNCHANGED <<gameVars, kind, st, screen, timers, tw>>

CamNext ==
  \/ CamSetPosition
  \/ CamSetPositionStyled

CamSpec == CamInit /\ [][CamNext]_vars

(* ------------------------------ claims -------------------------------- *)
\* the iterator position: how many scenes next() has handed out
Consumed == Len(scenes_arg) - Len(scenes)

\* the position of the active scene in the list, one past the end once
\* next(self.scenes, None) has yielded None
Cursor == Consumed + (IF current_scene = None THEN 1 ELSE 0)

\* C1: when a scene returned NEXT_SCENE and a next scene exists, the next
\* next_frame call (the program is about to make it) is on the following
\* scene of the list and is handed the empty Keystroke, not the key of the
\* tick that returned NEXT_SCENE.
C1_AdvanceDeliversSentinel ==
  (pc = "call" /\ PyEq(called.ret, NEXT_SCENE) /\ current_scene # None)
    => (current_scene = called.scene + 1 /\ val = Keystroke)

\* C2 as stated: once next_frame returned QUIT no presentation of the screen
\* happens, neither before nor after termination.
C2_NoPresentationAfterQuit ==
  PyEq(called.ret, QUIT) => since.present = 0

\* C2 as amended: once next_frame returned QUIT the screen is presented
\* exactly once (the print that follows every next_frame return), then run
\* terminates; no poll, no reset, no further call and no presentation after.
C2_QuitPresentsOnceThenTerminates ==
  PyEq(called.ret, QUIT) =>
    /\ pc \in {"present", "dispatch", "terminated"}
    /\ since.present = (IF pc = "present" THEN 0 ELSE 1)
    /\ since.poll = 0
    /\ since.reset = 0
    /\ err = "none"

C2_Witness ==
  TERMINATED /\ PyEq(called.ret, QUIT) /\ since.present = 1 /\ called.val = "x"

\* the last scene of the list returned NEXT_SCENE and run has dispatched it
AfterLastAdvance ==
  /\ PyEq(called.ret, NEXT_SCENE)
  /\ called.scene = Len(scenes_arg)
  /\ pc \notin {"present", "dispatch"}

\* C3: after the last scene returned NEXT_SCENE the active scene is the end
\* marker None, run makes no next_frame call, no reset call and no poll any
\* more, and it reaches TERMINATED (through the logged exit).
C3_ExhaustionTerminates ==
  /\ [](AfterLastAdvance =>
          /\ current_scene = None
          /\ pc \in {"while", "call", "terminated"}
          /\ since.poll = 0 /\ since.reset = 0)
  /\ [][AfterLastAdvance => (called' = called /\ since' = since)]_vars
  /\ (AfterLastAdvance ~> (TERMINATED /\ logged))

C3_Witness ==
  AfterLastAdvance /\ TERMINATED /\ logged /\ Len(scenes_arg) = MaxScenes

\* C4: after a scene returned RESET, run calls reset once on that scene
\* (the active scene and the iterator do not change while command is RESET),
\* does not poll, leaves the loop only if a scene operation raises, and is
\* about to call next_frame on the same scene with the empty Keystroke.
C4_ResetKeepsSceneAndClearsEvent ==
  /\ [](PyEq(called.ret, RESET) =>
          /\ pc \in {"present", "dispatch", "reset", "while", "call", "crashed"}
          /\ since.poll = 0
          /\ pc = "crashed" => (err \in Errors /\ since.reset = 1)
          /\ pc \in {"while", "call"} =>
               /\ since.reset = 1
               /\ val = Keystroke
               /\ current_scene = called.scene)
  /\ [][PyEq(called.ret, RESET) => UNCHANGED <<scenes, current_scene>>]_vars

C4_Witness ==
  /\ pc = "call" /\ PyEq(called.ret, RESET) /\ since.reset = 1
  /\ called.val = "q" /\ val = Keystroke /\ current_scene = 2

\* C5: whatever a scene operation raises, run logs it and ends in TERMINATED;
\* the exception never leaves run.
C5_SceneErrorsHandled ==
  err \in Errors => (TERMINATED /\ logged)

\* C6: a Game built from an empty list fails in the constructor with an
\* error (StopIteration); run is entered only with a list of at least one
\* scene.
C6_EmptyListFailsAtConstruction ==
  /\ scenes_arg = <<>> => pc \in {"new", "ctor_failed"}
  /\ pc = "ctor_failed" => (scenes_arg = <<>> /\ err = "StopIteration")
  /\ RUNNING => Len(scenes_arg) >= 1

C6_Witness ==
  pc = "ctor_failed" /\ scenes_arg = <<>> /\ err = "StopIteration"

\* the program is past a successful construction
Constructed == pc \notin {"new", "ctor_failed"}

\* C7: the cursor moves forward by one when run dispatches NEXT_SCENE and
\* does not move in any other step; the iterator holds the scenes after the
\* cursor in list order and the active scene is the one at the cursor, so
\* scenes are active in construction order and none comes back.
C7_CursorNeverRewinds ==
  /\ [](Constructed =>
          /\ scenes = SubSeq(scenes_arg, Consumed + 1, Len(scenes_arg))
          /\ Cursor \in 1..(Len(scenes_arg) + 1)
          /\ current_scene =
               (IF Cursor <= Len(scenes_arg) THEN scenes_arg[Cursor] ELSE None))
  /\ [][Constructed =>
          Cursor' = Cursor +
            (IF pc = "dispatch" /\ pc' # pc /\ PyEq(command, NEXT_SCENE)
               THEN 1 ELSE 0)]_vars

C7_Witness ==
  /\ Len(scenes_arg) = MaxScenes /\ Cursor = MaxScenes + 1
  /\ PyEq(called.ret, NEXT_SCENE) /\ called.scene = MaxScenes

\* C8: while the loop runs, the active scene is a scene of the list, never
\* None.
C8_ActiveSceneValid ==
  RUNNING => (current_scene # None /\ \E i \in 1..Len(scenes_arg) :
                                         scenes_arg[i] = current_scene)

\* C9: a step leaves the loop only when it dispatches QUIT, when the call
\* of next_frame finds the sequence exhausted (current_scene is None), or
\* when a scene operation raises; the while test never ends the run,
\* whatever key val holds.
C9_ExitsOnlyByQuitExhaustionOrError ==
  [][(RUNNING /\ ~RUNNING') =>
       \/ pc = "dispatch" /\ PyEq(command, QUIT) /\ TERMINATED'
       \/ pc = "call" /\ current_scene = None /\ TERMINATED'
       \/ pc \in {"call", "reset"} /\ current_scene # None /\ err' \in Errors
    ]_vars

C9_Witness ==
  pc = "call" /\ lower(val) = "q" /\ since.poll = 1

\* C10: a poll with an empty input buffer returns the empty Keystroke
\* (timeout) instead of waiting for a key, and every poll is followed by
\* another next_frame call on the active scene, even if no key is ever
\* pressed.
C10_PollTimesOutAndLoopGoesOn ==
  /\ [][(pc = "poll" /\ pc' # "poll" /\ kbd = <<>>) =>
          (val' = Keystroke /\ since'.timeout /\ pc' = "while")]_vars
  /\ (pc = "poll" ~> (pc = "call" /\ current_scene = called.scene))

C10_Witness ==
  /\ pc = "call" /\ since.poll = 1 /\ since.timeout
  /\ val = Keystroke /\ kbd = <<>> /\ called.ret = StrRet

\* the last next_frame call returned a value that is none of NEXT_SCENE,
\* RESET, QUIT: a domain signal (PAUSE, PLAY, LOSE), "" or None
ReturnedOther ==
  /\ called.ret \in Returns
  /\ ~PyEq(called.ret, NEXT_SCENE)
  /\ ~PyEq(called.ret, RESET)
  /\ ~PyEq(called.ret, QUIT)

\* C19: after next_frame returned anything but NEXT_SCENE, RESET or QUIT, run
\* keeps the active scene and the iterator, calls no reset, stays in the loop,
\* polls the input once and is then about to call next_frame on the same
\* scene: PAUSE, PLAY, LOSE, "" and None are all handled alike.
C19_OtherSignalsContinue ==
  /\ [](ReturnedOther =>
          /\ pc \in {"present", "dispatch", "poll", "while", "call"}
          /\ since.reset = 0
          /\ current_scene = called.scene
          /\ since.poll = (IF pc \in {"while", "call"} THEN 1 ELSE 0))
  /\ [][ReturnedOther => UNCHANGED <<scenes, current_scene>>]_vars

C19_Witness ==
  /\ pc = "call" /\ called.ret = IntRet(MaxSignal) /\ since.poll = 1
  /\ called.val = "q" /\ current_scene = 2

\* C14: every slice bound set_position computes lies inside the map:
\* 0 <= y_min, y_max <= rows - 1 and 0 <= x_min, x_max <= cols - 1.
C14_BoundsInsideMap ==
  cam.phase = "set" =>
    /\ cam.out.y_min \in 0..(cam.rows - 1)
    /\ cam.out.y_max \in 0..(cam.rows - 1)
    /\ cam.out.x_min \in 0..(cam.cols - 1)
    /\ cam.out.x_max \in 0..(cam.cols - 1)

\* the column range of a set_position answer
ColumnRange(b) == <<b.x_min, b.x_max>>

\* C15: the column range of set_position(x, y) is a function of x alone: it
\* is the same for every other y, and for x inside the map it differs from
\* the column range of every other x inside the map.
C15_RangesFromOwnAxis ==
  cam.phase = "set" =>
    /\ \A y2 \in Coords :
         ColumnRange(set_position(cam, cam.x, y2)) = ColumnRange(cam.out)
    /\ cam.x \in 0..(cam.cols - 1) =>
         \A x2 \in 0..(cam.cols - 1) :
           x2 # cam.x =>
             ColumnRange(set_position(cam, x2, cam.y)) # ColumnRange(cam.out)

\* v lies strictly between a and b
StrictlyBetween(v, a, b) == (a < v /\ v < b) \/ (b < v /\ v < a)

\* v lies between a and b, ends included
Between(v, a, b) == (a <= v /\ v <= b) \/ (b <= v /\ v <= a)

\* C16 as stated: on each axis with nonzero displacement the first waypoint
\* lies strictly between the start anchor and the target.
C16_FirstWaypointStrictlyBetween ==
  cam.phase = "styled" =>
    /\ cam.x # cam.cam_x =>
         StrictlyBetween(cam.out[1][1], cam.cam_x * Scale, cam.x * Scale)
    /\ cam.y # cam.cam_y =>
         StrictlyBetween(cam.out[1][2], cam.cam_y * Scale, cam.y * Scale)

\* C16 as amended: set_position_styled returns transition_length waypoints
\* and the first one is the start anchor itself (the easing is 0 at step 0),
\* so it differs from the target on each axis with nonzero displacement.
C16_FirstWaypointIsStart ==
  cam.phase = "styled" =>
    /\ Len(cam.out) = transition_length
    /\ cam.out[1] = <<cam.cam_x * Scale, cam.cam_y * Scale>>
    /\ cam.x # cam.cam_x => cam.out[1][1] # cam.x * Scale
    /\ cam.y # cam.cam_y => cam.out[1][2] # cam.y * Scale

C16_Witness ==
  /\ cam.phase = "styled" /\ cam.x > cam.cam_x /\ cam.y < cam.cam_y
  /\ cam.out[1] = <<cam.cam_x * Scale, cam.cam_y * Scale>>

\* C17: the waypoints move monotonically from the anchor towards the target
\* and none passes beyond the target: on each axis every waypoint lies
\* between the start and the target, each one no nearer to the start than
\* the one before.
C17_WaypointsStayBeforeTarget ==
  cam.phase = "styled" =>
    \A i \in 1..Len(cam.out) :
      /\ Between(cam.out[i][1], cam.cam_x * Scale, cam.x * Scale)
      /\ Between(cam.out[i][2], cam.cam_y * Scale, cam.y * Scale)
      /\ i > 1 =>
           /\ Between(cam.out[i - 1][1], cam.cam_x * Scale, cam.out[i][1])
           /\ Between(cam.out[i - 1][2], cam.cam_y * Scale, cam.out[i][2])

\* C11: after reset(), called once or several times in any state the scene
\* can be in, the scene returns for every further event the value a newly
\* constructed scene of its class returns for the same events.
C11_ResetBehavesLikeNew ==
  tw.phase = "both" => tw.ra = tw.rb

C13_AdvanceOnlyAtGoal ==
  [][(pc = "call" /\ pc' = "present" /\ kind[current_scene] = "level"
        /\ PyEq(command', NEXT_SCENE)) =>
       /\ ~st[current_scene].first_frame
       /\ IsArrow(val)
       /\ st'[current_scene].coords = end_loc]_vars

C13_Witness ==
  /\ pc = "present" /\ PyEq(called.ret, NEXT_SCENE)
  /\ kind[called.scene] = "level" /\ called.val = "KEY_RIGHT"
  /\ st[called.scene].coords = end_loc

\* C18: a remove_maze thread that wakes up when the loop has moved on from
\* its Level to another scene changes neither the scene objects nor what the
\* render sink holds for the scene that is active now.
C18_LateTimerIsNoOp ==
  [][\A i \in 1..Len(timers) :
       (timers'[i] < timers[i] /\ current_scene # None /\ current_scene # i)
         => (screen' = screen /\ st' = st)]_vars

\* C20: whenever maze_is_visible of the active Level is True, its maze is
\* drawn on the screen.
C20_VisibleFlagMeansDrawn ==
  (RUNNING /\ current_scene # None /\ kind[current_scene] = "level"
     /\ st[current_scene].maze_is_visible)
    => <<"maze", current_scene>> \in screen

====
